---- MODULE Spec2Model ----
(***************************************************************************)
(* Model of src/AtlasI2C.py: the AtlasI2C device handle.                   *)
(*                                                                         *)
(* Encoding.  A character is its code point and a byte is an integer in    *)
(* 0..255, so a str and a bytes value are sequences of integers.  An       *)
(* Optional value is <<>> for None and <<v>> for a value v.  The tuple     *)
(* (error_code, text) returned by read is the record [code, text] whose    *)
(* fields are Optional.  Durations are in tenths of a second.              *)
(*                                                                         *)
(* One caller uses the handle.  A call is a sequence of steps, one step    *)
(* per operation on the bus (ioctl, write, sleep, read); pc is the step    *)
(* the caller is at and frame is the method that issued the step.          *)
(***************************************************************************)
EXTENDS Integers, Sequences, FiniteSets, TLC

\* ----------------------------------------------------------------- bounds
\* Candidate addresses swept by list_i2c_devices are 0..LastAddr
\* (range(0, 128) in the source, cut down to keep the sweep enumerable).
LastAddr == 2
\* Longest buffer the transport returns to one read.
MaxLen == 3

\* -------------------------------------------------------- class constants
LONG_TIMEOUT == 15
SHORT_TIMEOUT == 3
DEFAULT_ADDRESS == 98
\* ("R", "CAL")
LONG_TIMEOUT_COMMANDS == {<<82>>, <<67, 65, 76>>}
\* ("SLEEP",)
SLEEP_COMMANDS == {<<83, 76, 69, 69, 80>>}
\* default num_of_bytes of read
DefaultNumOfBytes == 31

None == <<>>
Some(v) == <<v>>

\* ------------------------------------------------------------ input sets
\* Addresses a caller passes to set_i2c_address or the constructor.
Addrs == (0..LastAddr) \cup {DEFAULT_ADDRESS}
\* Byte values of the buffers: NUL padding, the success status, an error
\* status, 'A', and 'A' with the most-significant bit set.
Bytes == {0, 1, 2, 65, 193}
RECURSIVE SeqsUpTo(_, _)
SeqsUpTo(S, n) ==
    IF n = 0 THEN {<<>>}
    ELSE LET shorter == SeqsUpTo(S, n - 1)
         IN  shorter \cup {Append(s, b) : s \in {t \in shorter : Len(t) = n - 1}, b \in S}
Min(a, b) == IF a < b THEN a ELSE b
\* Buffers the transport may return to a read of num_of_bytes bytes.
RawBuffers(num_of_bytes) == SeqsUpTo(Bytes, Min(num_of_bytes, MaxLen))
\* "R", "r", "Cal,123", "Sleep", "SLEEP", "sleep,1", "L1", "", "SLEE"
Commands ==
    { <<82>>, <<114>>, <<67, 97, 108, 44, 49, 50, 51>>,
      <<83, 108, 101, 101, 112>>, <<83, 76, 69, 69, 80>>,
      <<115, 108, 101, 101, 112, 44, 49>>,
      <<76, 49>>, <<>>, <<83, 76, 69, 69>> }

\* ------------------------------------------------------------- the state
VARIABLES
    pc,              \* the caller's position: "new", "idle", or a step
    frame,           \* the method that issued the current step
    address,         \* self._address
    long_timeout,    \* self._long_timeout
    short_timeout,   \* self._short_timeout
    read_addr,       \* address file_read is bound to (Optional)
    write_addr,      \* address file_write is bound to (Optional)
    call,            \* the public method last called and its argument
    addr,            \* argument of the running set_i2c_address
    num_of_bytes,    \* argument of the running read
    current_timeout, \* local of query (Optional)
    prev_addr,       \* local of list_i2c_devices
    i,               \* loop variable of list_i2c_devices
    i2c_devices,     \* local of list_i2c_devices
    raw_data,        \* local of read: the buffer of the last transport read
    ret,             \* how the last call ended, and its value
    trace,           \* bus operations issued by the last call, in order
    entry            \* the handle's binding when the last call was entered

vars == << pc, frame, address, long_timeout, short_timeout, read_addr,
           write_addr, call, addr, num_of_bytes, current_timeout, prev_addr,
           i, i2c_devices, raw_data, ret, trace, entry >>

handle == << address, long_timeout, short_timeout, read_addr, write_addr >>
locals == << addr, num_of_bytes, current_timeout, prev_addr, i, i2c_devices,
             raw_data >>

\* One bus operation: which (ev), its argument as a sequence (arg), whether
\* it completed without a transport error (ok), the byte count a write
\* reported (count, 0 otherwise), and the method that issued it (by).
Event(ev, arg, ok, count) ==
    [ev |-> ev, arg |-> arg, ok |-> ok, count |-> count, by |-> frame]
Log(ev, arg, ok, count) == trace' = Append(trace, Event(ev, arg, ok, count))

\* The recorded address and the addresses the two endpoints are bound to.
Binding == [address |-> address, read_addr |-> read_addr, write_addr |-> write_addr]

Pending == [kind |-> "pending", value |-> None]
Return(v) == [kind |-> "return", value |-> v]
Raise(e) == [kind |-> "raise", value |-> e]

\* Mutant of upper_char: the character is left as typed.
upper_char_AsTyped(c) == c

\* -------------------------------------------------------- pure functions
\* str.upper on one character
upper_char(c) == IF c \in 97..122 THEN c - 32 ELSE c
upper(s) == [k \in 1..Len(s) |-> upper_char(s[k])]
\* str.startswith with a tuple of prefixes
startswith(s, prefixes) ==
    \E p \in prefixes : Len(p) <= Len(s) /\ SubSeq(s, 1, Len(p)) = p

\* cmd += "\00"; cmd.encode('latin-1'): latin-1 encodes the code point c of
\* an ASCII command as the byte c
write_payload(cmd) == [k \in 1..(Len(cmd) + 1) |->
                          IF k <= Len(cmd) THEN cmd[k] ELSE 0]
\* Byte counts file_write.write may report for a payload: nothing written,
\* one byte short, or all of it.
WriteCounts(payload) == {n \in {0, Len(payload) - 1, Len(payload)} : n >= 0}

\* bytes([i for i in raw_data if i != 0])
nonzero(b) == b # 0
\* Mutant of get_response: only the padding in front of the first non-zero
\* byte is removed.
RECURSIVE get_response_LeadingOnly(_)
get_response_LeadingOnly(raw) ==
    IF raw # <<>> /\ raw[1] = 0 THEN get_response_LeadingOnly(Tail(raw)) ELSE raw

get_response(raw) == SelectSeq(raw, nonzero)

\* Mutant of is_valid: the error code is reported for a valid response only.
is_valid_NoCodeOnFailure(response) ==
    IF Len(response) > 0 /\ response[1] = 1
    THEN <<TRUE, Some(response[1])>>
    ELSE <<FALSE, None>>

\* is_valid: <<valid, error_code>>
is_valid(response) ==
    IF Len(response) > 0
    THEN IF response[1] = 1 THEN <<TRUE, Some(response[1])>>
                            ELSE <<FALSE, Some(response[1])>>
    ELSE <<FALSE, None>>

\* Mutant of clear_msb: the most-significant bit is left as received.
clear_msb_Kept(x) == x

\* x & ~0x80 for a byte x
clear_msb(x) == IF x >= 128 THEN x - 128 ELSE x
\* Mutant of handle_raspi_glitch: the most-significant bit is cleared in
\* every byte except the first.
handle_raspi_glitch_ExceptFirst(response) ==
    [k \in 1..Len(response) |->
        IF k = 1 THEN response[k] ELSE clear_msb(response[k])]

\* list(map(lambda x: chr(x & ~0x80), list(response)))
handle_raspi_glitch(response) ==
    [k \in 1..Len(response) |-> clear_msb(response[k])]

\* Mutant of read_result: the status byte is taken from the buffer as
\* delivered, padding included.
read_result_StatusFromRaw(raw) ==
    LET response == get_response(raw)
        valid == is_valid(raw)
    IN  IF valid[1]
        THEN [code |-> Some(0), text |-> Some(handle_raspi_glitch(Tail(response)))]
        ELSE [code |-> valid[2], text |-> None]

\* read, after file_read.read returned raw
read_result(raw) ==
    LET response == get_response(raw)
        valid == is_valid(response)
    IN  IF valid[1]
        THEN [code |-> Some(0), text |-> Some(handle_raspi_glitch(Tail(response)))]
        ELSE [code |-> valid[2], text |-> None]

\* Mutant of get_command_timeout: the sleep prefix is compared with the
\* command as typed, not with its upper-cased text.
get_command_timeout_CaseSensitiveSleep(command) ==
    IF startswith(upper(command), LONG_TIMEOUT_COMMANDS) THEN Some(long_timeout)
    ELSE IF ~startswith(command, SLEEP_COMMANDS) THEN Some(short_timeout)
    ELSE None

get_command_timeout(command) ==
    IF startswith(upper(command), LONG_TIMEOUT_COMMANDS) THEN Some(long_timeout)
    ELSE IF ~startswith(upper(command), SLEEP_COMMANDS) THEN Some(short_timeout)
    ELSE None

\* Python truth value of an Optional[float]
truthy(t) == t # None /\ t[1] # 0

\* ------------------------------------------------------------------ Init
\* No handle constructed yet; the attributes hold placeholders.
Init ==
    /\ pc = "new"
    /\ frame = "none"
    /\ address = 0
    /\ long_timeout = 0
    /\ short_timeout = 0
    /\ read_addr = None
    /\ write_addr = None
    /\ call = [op |-> "none", arg |-> <<>>]
    /\ addr = 0
    /\ num_of_bytes = 0
    /\ current_timeout = None
    /\ prev_addr = 0
    /\ i = 0
    /\ i2c_devices = <<>>
    /\ raw_data = <<>>
    /\ ret = Pending
    /\ trace = <<>>
    /\ entry = Binding

\* ------------------------------------------------------- entering a call
\* A public method is entered with fresh locals, an empty trace and no
\* result yet; f is the frame of its first step and p the step.
Enter(op, arg, f, p) ==
    /\ call' = [op |-> op, arg |-> arg]
    /\ frame' = f
    /\ pc' = p
    /\ ret' = Pending
    /\ trace' = <<>>
    /\ entry' = Binding
    /\ raw_data' = <<>>
    /\ current_timeout' = None
    /\ i' = 0
    /\ i2c_devices' = <<>>

\* address or self.DEFAULT_ADDRESS
address_or_default(a) == IF a # None /\ a[1] # 0 THEN a[1] ELSE DEFAULT_ADDRESS

\* __init__ up to the call of set_i2c_address (lines 63-77)
Construct(a) ==
    /\ pc = "new"
    /\ address' = address_or_default(a)
    /\ long_timeout' = LONG_TIMEOUT
    /\ short_timeout' = SHORT_TIMEOUT
    /\ read_addr' = None
    /\ write_addr' = None
    /\ Enter("__init__", a, "__init__", "ioctl_read")
    /\ addr' = address_or_default(a)
    /\ num_of_bytes' = 0
    /\ prev_addr' = 0

CallSetAddress(a) ==
    /\ pc = "idle"
    /\ Enter("set_i2c_address", <<a>>, "set_i2c_address", "ioctl_read")
    /\ addr' = a
    /\ num_of_bytes' = 0
    /\ prev_addr' = 0
    /\ UNCHANGED handle

CallRead(n) ==
    /\ pc = "idle"
    /\ Enter("read", <<n>>, "read", "file_read")
    /\ addr' = 0
    /\ num_of_bytes' = n
    /\ prev_addr' = 0
    /\ UNCHANGED handle

CallQuery(command) ==
    /\ pc = "idle"
    /\ Enter("query", command, "query", "file_write")
    /\ addr' = 0
    /\ num_of_bytes' = 0
    /\ prev_addr' = 0
    /\ UNCHANGED handle

\* list_i2c_devices up to the first set_i2c_address(i) (lines 261-265)
CallList ==
    /\ pc = "idle"
    /\ Enter("list_i2c_devices", <<>>, "list_loop", "ioctl_read")
    /\ prev_addr' = address
    /\ addr' = 0
    /\ num_of_bytes' = 0
    /\ UNCHANGED handle

\* ---------------------------------------------------------- continuations
\* Where control goes when a callee returns or raises.  Each assigns pc,
\* frame, ret, addr, num_of_bytes, i and i2c_devices.
Goto(p, f, r) == pc' = p /\ frame' = f /\ ret' = r

Finish(r) ==
    /\ Goto("idle", frame, r)
    /\ UNCHANGED << addr, num_of_bytes, i, i2c_devices >>

\* Mutant of ScanAdvance: after the last candidate the scan returns its list
\* at once, without binding the saved address again.
ScanAdvance_NoRestore(devs) ==
    /\ i2c_devices' = devs
    /\ UNCHANGED num_of_bytes
    /\ IF i < LastAddr
       THEN Goto("ioctl_read", "list_loop", ret) /\ i' = i + 1 /\ addr' = i + 1
       ELSE Goto("idle", "list_restore", Return(devs)) /\ i' = i /\ addr' = prev_addr

\* Mutant of ScanAdvance: the loop counts on but binds the candidate it has
\* just dealt with.
ScanAdvance_StaleCandidate(devs) ==
    /\ i2c_devices' = devs
    /\ UNCHANGED num_of_bytes
    /\ IF i < LastAddr
       THEN Goto("ioctl_read", "list_loop", ret) /\ i' = i + 1 /\ addr' = i
       ELSE Goto("ioctl_read", "list_restore", ret) /\ i' = i /\ addr' = prev_addr

\* The for loop of list_i2c_devices once candidate i is dealt with, the list
\* of devices becoming devs: next candidate, or the restoring bind after
\* the last one (lines 263, 265, 271).
ScanAdvance(devs) ==
    /\ i2c_devices' = devs
    /\ UNCHANGED num_of_bytes
    /\ IF i < LastAddr
       THEN Goto("ioctl_read", "list_loop", ret) /\ i' = i + 1 /\ addr' = i + 1
       ELSE Goto("ioctl_read", "list_restore", ret) /\ i' = i /\ addr' = prev_addr

\* Mutant of BindReturned: the scan probes a candidate by sending it a
\* command before reading.
BindReturned_ProbeByCommand ==
    CASE frame \in {"__init__", "set_i2c_address"} -> Finish(Return(None))
      [] frame = "list_loop" ->
            /\ Goto("file_write", "list_loop", ret)
            /\ num_of_bytes' = 1
            /\ UNCHANGED << addr, i, i2c_devices >>
      [] frame = "list_restore" -> Finish(Return(i2c_devices))

\* set_i2c_address returned (line 166 done)
BindReturned ==
    CASE frame \in {"__init__", "set_i2c_address"} -> Finish(Return(None))
      [] frame = "list_loop" ->
            /\ Goto("file_read", "list_loop", ret)
            /\ num_of_bytes' = 1
            /\ UNCHANGED << addr, i, i2c_devices >>
      [] frame = "list_restore" -> Finish(Return(i2c_devices))

\* Mutant of BindRaised: in the scan the probe read is outside the guard of
\* the bind, so it is issued also when the bind failed.
BindRaised_ReadAnyway ==
    CASE frame = "__init__" ->
            /\ Goto("new", "none", Raise("IOError"))
            /\ addr' = 0
            /\ UNCHANGED << num_of_bytes, i, i2c_devices >>
      [] frame = "set_i2c_address" -> Finish(Raise("IOError"))
      [] frame = "list_loop" ->
            /\ Goto("file_read", "list_loop", ret)
            /\ num_of_bytes' = 1
            /\ UNCHANGED << addr, i, i2c_devices >>
      [] frame = "list_restore" -> Finish(Raise("IOError"))

\* an ioctl of set_i2c_address raised IOError
BindRaised ==
    CASE frame = "__init__" ->
            /\ Goto("new", "none", Raise("IOError"))
            /\ addr' = 0
            /\ UNCHANGED << num_of_bytes, i, i2c_devices >>
      [] frame = "set_i2c_address" -> Finish(Raise("IOError"))
      [] frame = "list_loop" -> ScanAdvance(i2c_devices)
      [] frame = "list_restore" -> Finish(Raise("IOError"))

\* Mutant of ReadReturned: the scan records a candidate only when its probe
\* response is a valid one.
ReadReturned_ValidOnly(res) ==
    CASE frame = "read" -> Finish(Return(res))
      [] frame = "query" -> Finish(Return(Some(res)))
      [] frame = "list_loop" ->
            ScanAdvance(IF res.code = Some(0) THEN Append(i2c_devices, i)
                                              ELSE i2c_devices)

\* read returned res (lines 205-212 done)
ReadReturned(res) ==
    CASE frame = "read" -> Finish(Return(res))
      [] frame = "query" -> Finish(Return(Some(res)))
      [] frame = "list_loop" -> ScanAdvance(Append(i2c_devices, i))

\* Mutant of ReadRaised: the probe read of the scan is not guarded, so its
\* IOError leaves list_i2c_devices.
ReadRaised_Unguarded == Finish(Raise("IOError"))

\* Mutant of ReadRaised: read and query try the transport read again when it
\* fails.
ReadRaised_Retry ==
    CASE frame \in {"read", "query"} ->
            /\ Goto("file_read", frame, ret)
            /\ UNCHANGED << addr, num_of_bytes, i, i2c_devices >>
      [] frame = "list_loop" -> ScanAdvance(i2c_devices)

\* file_read.read raised IOError
ReadRaised ==
    CASE frame \in {"read", "query"} -> Finish(Raise("IOError"))
      [] frame = "list_loop" -> ScanAdvance(i2c_devices)

\* Mutant of QueryAfterWrite: the read follows the write at once, the
\* settling delay left out.
QueryAfterWrite_NoWait(t) ==
    /\ current_timeout' = t
    /\ IF ~truthy(t)
       THEN Finish(Return(None))
       ELSE /\ Goto("file_read", frame, ret)
            /\ num_of_bytes' = DefaultNumOfBytes
            /\ UNCHANGED << addr, i, i2c_devices >>

\* query after write returned, the timeout being t (lines 241-246)
QueryAfterWrite(t) ==
    /\ current_timeout' = t
    /\ IF ~truthy(t)
       THEN Finish(Return(None))
       ELSE /\ Goto("sleep", frame, ret)
            /\ UNCHANGED << addr, num_of_bytes, i, i2c_devices >>

\* ------------------------------------------------------------- bus steps
\* fcntl.ioctl(self.file_read, self._I2C_SLAVE_ADDR, addr) (line 164)
IoctlRead ==
    /\ pc = "ioctl_read"
    /\ \E ok \in BOOLEAN :
        /\ Log("ioctl_read", <<addr>>, ok, 0)
        /\ IF ok
           THEN /\ read_addr' = Some(addr)
                /\ UNCHANGED << address, long_timeout, short_timeout, write_addr >>
                /\ Goto("ioctl_write", frame, ret)
                /\ UNCHANGED << addr, num_of_bytes, i, i2c_devices >>
           ELSE /\ BindRaised
                /\ IF frame = "__init__"
                   THEN /\ address' = 0 /\ long_timeout' = 0 /\ short_timeout' = 0
                        /\ read_addr' = None /\ write_addr' = None
                   ELSE UNCHANGED handle
    /\ raw_data' = <<>>
    /\ UNCHANGED << call, current_timeout, prev_addr, entry >>

\* fcntl.ioctl(self.file_write, self._I2C_SLAVE_ADDR, addr); self._address = addr
\* (lines 165-166)
IoctlWrite ==
    /\ pc = "ioctl_write"
    /\ \E ok \in BOOLEAN :
        /\ Log("ioctl_write", <<addr>>, ok, 0)
        /\ IF ok
           THEN /\ write_addr' = Some(addr)
                /\ address' = addr
                /\ UNCHANGED << long_timeout, short_timeout, read_addr >>
                /\ BindReturned
           ELSE /\ BindRaised
                /\ IF frame = "__init__"
                   THEN /\ address' = 0 /\ long_timeout' = 0 /\ short_timeout' = 0
                        /\ read_addr' = None /\ write_addr' = None
                   ELSE UNCHANGED handle
    /\ raw_data' = <<>>
    /\ UNCHANGED << call, current_timeout, prev_addr, entry >>

\* self.write(command); current_timeout = self.get_command_timeout(command)
\* (lines 240-244, 177-178)
FileWrite ==
    /\ pc = "file_write"
    /\ LET payload == write_payload(call.arg)
       IN  \/ \E n \in WriteCounts(payload) :
                /\ Log("write", payload, TRUE, n)
                /\ QueryAfterWrite(get_command_timeout(call.arg))
           \/ /\ Log("write", payload, FALSE, 0)
              /\ Finish(Raise("IOError"))
              /\ UNCHANGED current_timeout
    /\ raw_data' = <<>>
    /\ UNCHANGED << handle, call, prev_addr, entry >>

\* time.sleep(current_timeout); read() is entered (lines 246-247)
Sleep ==
    /\ pc = "sleep"
    /\ Log("sleep", current_timeout, TRUE, 0)
    /\ Goto("file_read", frame, ret)
    /\ num_of_bytes' = DefaultNumOfBytes
    /\ raw_data' = <<>>
    /\ UNCHANGED << handle, call, current_timeout, prev_addr, addr, i, i2c_devices,
                    entry >>

\* raw_data = self.file_read.read(num_of_bytes) and the rest of read
\* (lines 204-212)
FileRead ==
    /\ pc = "file_read"
    /\ \/ \E raw \in RawBuffers(num_of_bytes) :
            /\ Log("read", <<num_of_bytes>>, TRUE, 0)
            /\ raw_data' = raw
            /\ ReadReturned(read_result(raw))
       \/ /\ Log("read", <<num_of_bytes>>, FALSE, 0)
          /\ raw_data' = <<>>
          /\ ReadRaised
    /\ UNCHANGED << handle, call, current_timeout, prev_addr, entry >>

\* ------------------------------------------------------- static methods
\* The static methods need no handle: they are applied to a sample buffer,
\* the one the behaviour starts with or the bytes the last get_response
\* returned.
StaticArgs ==
    {call.arg} \cup
        (IF call.op = "get_response" /\ ret.kind = "return" THEN {ret.value} ELSE {})

CallStatic(op, x, value) ==
    /\ pc = "new"
    /\ call' = [op |-> op, arg |-> x]
    /\ ret' = Return(value)
    /\ UNCHANGED << pc, frame, handle, locals, trace, entry >>

CallGetResponse(x) == CallStatic("get_response", x, get_response(x))
CallIsValid(x) == CallStatic("is_valid", x, is_valid(x))
CallHandleRaspiGlitch(x) == CallStatic("handle_raspi_glitch", x, handle_raspi_glitch(x))

\* ------------------------------------------------------------------ Next
Next ==
    \/ \E a \in {None} \cup {Some(x) : x \in Addrs} : Construct(a)
    \/ \E a \in Addrs : CallSetAddress(a)
    \/ \E n \in {1, DefaultNumOfBytes} : CallRead(n)
    \/ \E command \in Commands : CallQuery(command)
    \/ CallList
    \/ IoctlRead
    \/ IoctlWrite
    \/ FileWrite
    \/ Sleep
    \/ FileRead

Spec == Init /\ [][Next]_vars

\* Behaviours in which the owner also tunes the handle's timeouts, assigning
\* self._long_timeout and self._short_timeout between calls.
TimeoutValues == {0, SHORT_TIMEOUT, LONG_TIMEOUT}

SetTimeouts(l, s) ==
    /\ pc = "idle"
    /\ long_timeout' = l
    /\ short_timeout' = s
    /\ UNCHANGED << pc, frame, address, read_addr, write_addr, call, locals,
                    ret, trace, entry >>

NextTuned ==
    \/ Next
    \/ \E l, s \in TimeoutValues : SetTimeouts(l, s)

SpecTuned == Init /\ [][NextTuned]_vars

\* Behaviours in which a second thread uses the handle without any lock:
\* while a call of the first thread is between two of its steps, the second
\* thread runs set_i2c_address(a), once per call of the first.  Its second
\* address-select may fail like any other: n is the number of endpoints it
\* re-bound (the read endpoint first); a bind that re-bound none changes
\* nothing and is left out.
OtherBind(a, n) ==
    /\ pc \notin {"new", "idle"}
    /\ \A k \in 1..Len(trace) : trace[k].by # "other"
    /\ trace' = Append(trace, [ev |-> "set_i2c_address", arg |-> <<a>>, ok |-> n = 2,
                               count |-> n, by |-> "other"])
    /\ read_addr' = IF n >= 1 THEN Some(a) ELSE read_addr
    /\ write_addr' = IF n = 2 THEN Some(a) ELSE write_addr
    /\ address' = IF n = 2 THEN a ELSE address
    /\ UNCHANGED << pc, frame, long_timeout, short_timeout, call, locals, ret,
                    entry >>

\* The addresses the second thread binds.
OtherAddrs == {0, DEFAULT_ADDRESS}

\* "R", "Sleep"
RaceCommands == {<<82>>, <<83, 108, 101, 101, 112>>}

NextRace ==
    \/ \E a \in {None} \cup {Some(x) : x \in Addrs} : Construct(a)
    \/ \E a \in Addrs : CallSetAddress(a)
    \/ CallRead(1)
    \/ \E command \in RaceCommands : CallQuery(command)
    \/ CallList
    \/ IoctlRead
    \/ IoctlWrite
    \/ FileWrite
    \/ Sleep
    \/ FileRead
    \/ \E a \in OtherAddrs, n \in 1..2 : OtherBind(a, n)

SpecRace == Init /\ [][NextRace]_vars

\* Behaviours that apply the static methods to a sample buffer.
InitStatic ==
    /\ pc = "new"
    /\ frame = "none"
    /\ address = 0
    /\ long_timeout = 0
    /\ short_timeout = 0
    /\ read_addr = None
    /\ write_addr = None
    /\ call \in {[op |-> "none", arg |-> x] : x \in SeqsUpTo(Bytes, MaxLen)}
    /\ addr = 0
    /\ num_of_bytes = 0
    /\ current_timeout = None
    /\ prev_addr = 0
    /\ i = 0
    /\ i2c_devices = <<>>
    /\ raw_data = <<>>
    /\ ret = Pending
    /\ trace = <<>>
    /\ entry = Binding

NextStatic ==
    \/ \E x \in StaticArgs : CallGetResponse(x)
    \/ \E x \in StaticArgs : CallIsValid(x)
    \/ \E x \in StaticArgs : CallHandleRaspiGlitch(x)

SpecStatic == InitStatic /\ [][NextStatic]_vars

\* ------------------------------------------------------ reading the trace
Last(s) == s[Len(s)]
AtRest == pc = "idle"
InList == call.op = "list_i2c_devices"
ListOver == InList /\ pc = "idle"
Candidates == 0..LastAddr
\* Positions of the trace where the loop of list_i2c_devices bound the
\* write endpoint to candidate j, completing set_i2c_address(j).
BoundAt(j) ==
    {k \in 1..Len(trace) :
        /\ trace[k].by = "list_loop"
        /\ trace[k].ev = "ioctl_write"
        /\ trace[k].arg = <<j>>
        /\ trace[k].ok}
\* Candidate j was bound and its probe read completed without an error.
Responsive(j) ==
    \E k \in BoundAt(j) :
        k < Len(trace) /\ trace[k + 1].ev = "read" /\ trace[k + 1].ok
\* Candidate j was tried: its bind was attempted.
Probed(j) ==
    \E k \in 1..Len(trace) :
        trace[k].by = "list_loop" /\ trace[k].ev = "ioctl_read" /\ trace[k].arg = <<j>>
\* A transport error happened while candidate j was tried.
FailedAt(j) ==
    \E k \in 1..Len(trace) :
        /\ trace[k].by = "list_loop"
        /\ ~trace[k].ok
        /\ \/ trace[k].ev \in {"ioctl_read", "ioctl_write"} /\ trace[k].arg = <<j>>
           \/ trace[k].ev = "read" /\ (k - 1) \in BoundAt(j)
Elems(s) == {s[k] : k \in 1..Len(s)}
Ascending(s) == \A k \in 1..(Len(s) - 1) : s[k] < s[k + 1]

\* ------------------------------------------------------------------- C1
\* C1: whenever the handle is at rest (no call in progress), the read
\* endpoint and the write endpoint are bound to the same bus address, also
\* after calls in which an address-select failed.
C1_EndpointsBoundAlike == AtRest => read_addr = write_addr

\* ------------------------------------------------------------------- C2
\* C2 as stated: once list_i2c_devices is over, the handle's bound address
\* is the one it had when the scan began, whatever failed on the way.
C2_ScanAlwaysRestores == ListOver => address = prev_addr

\* C2 amended: the scan always ends with an attempt to bind the saved
\* address, and when it returns its list the recorded address and both
\* endpoints are at the saved address again, whatever the probes did.
C2_ScanReturnRestores ==
    ListOver =>
        /\ Last(trace).by = "list_restore"
        /\ Last(trace).arg = <<prev_addr>>
        /\ ret.kind = "return" <=> (Last(trace).ev = "ioctl_write" /\ Last(trace).ok)
        /\ ret.kind = "return" =>
              /\ address = prev_addr
              /\ read_addr = Some(prev_addr)
              /\ write_addr = Some(prev_addr)

\* A scan that began at the default address returned after a failed bind,
\* a failed probe read and a successful probe.
C2_Witness ==
    /\ ListOver
    /\ ret.kind = "return"
    /\ prev_addr = DEFAULT_ADDRESS
    /\ address = DEFAULT_ADDRESS
    /\ \E j \in Candidates : FailedAt(j) /\ BoundAt(j) = {}
    /\ \E j \in Candidates : FailedAt(j) /\ BoundAt(j) # {}
    /\ i2c_devices # <<>>

\* ------------------------------------------------------------------- C3
\* C3: in list_i2c_devices a transport error at candidate j is absorbed.
\* While the loop runs no result has reached the caller; a scan that raises
\* does so on the restoring bind only; a candidate with an error is not
\* recorded; and once the loop is over every candidate has been probed and
\* every candidate whose bind and probe read succeeded is recorded,
\* whatever happened at the candidates before it.
C3_ScanAbsorbsProbeErrors ==
    InList =>
        /\ frame = "list_loop" => ret = Pending
        /\ ret.kind = "raise" =>
              /\ Last(trace).by = "list_restore"
              /\ ~Last(trace).ok
        /\ \A j \in Candidates : FailedAt(j) => j \notin Elems(i2c_devices)
        /\ frame = "list_restore" =>
              \A j \in Candidates :
                  /\ Probed(j)
                  /\ Responsive(j) => j \in Elems(i2c_devices)

\* The scan returned a list holding a candidate that comes after one whose
\* bind failed and one whose probe read failed.
C3_Witness ==
    /\ ListOver
    /\ ret.kind = "return"
    /\ \E j \in Candidates :
          /\ j \in Elems(ret.value)
          /\ \E h \in 0..(j - 1) : FailedAt(h) /\ BoundAt(h) = {}
          /\ \E h \in 0..(j - 1) : FailedAt(h) /\ BoundAt(h) # {}

\* ------------------------------------------------------------------- C4
\* C4: the list built by list_i2c_devices is, at every point of the scan and
\* in the value returned, exactly the candidates whose bind and 1-byte probe
\* read both completed without a transport error, in strictly ascending
\* order (hence without duplicates); what the probe read delivered plays no
\* part.
C4_ListIsResponsiveAscending ==
    InList =>
        /\ Elems(i2c_devices) = {j \in Candidates : Responsive(j)}
        /\ Ascending(i2c_devices)
        /\ \A k \in 1..Len(trace) :
              (trace[k].by = "list_loop" /\ trace[k].ev = "read") => trace[k].arg = <<1>>
        /\ (pc = "idle" /\ ret.kind = "return") => ret.value = i2c_devices

\* A probe read has just delivered an error status (2) and the candidate
\* was recorded all the same, after an earlier one.
C4_Witness ==
    /\ InList
    /\ trace # <<>>
    /\ Last(trace).ev = "read"
    /\ Last(trace).ok
    /\ raw_data = <<2>>
    /\ Len(i2c_devices) = 2
    /\ Responsive(Last(i2c_devices))

\* ------------------------------------------------- classes of commands
\* The command's text starts, letter case ignored, with the word w (given
\* in upper case).
StartsWithWord(command, w) ==
    /\ Len(command) >= Len(w)
    /\ \A k \in 1..Len(w) : command[k] \in {w[k], w[k] + 32}
\* "SLEEP"
SleepCommand(command) == StartsWithWord(command, <<83, 76, 69, 69, 80>>)
\* "R" or "CAL"
LongCommand(command) ==
    StartsWithWord(command, <<82>>) \/ StartsWithWord(command, <<67, 65, 76>>)
InQuery == call.op = "query"
\* The bytes of the command followed by one NUL.
WithNul(command) == command \o <<0>>

\* ------------------------------------------------------------------- C5
\* C5: a query of a command whose upper-cased text starts with SLEEP issues
\* one bus operation only, the write of the command followed by one NUL; it
\* neither waits nor reads, and when that write has transmitted all of it
\* the query returns None.
C5_SleepWritesOnly ==
    (InQuery /\ SleepCommand(call.arg)) =>
        /\ Len(trace) <= 1
        /\ \A k \in 1..Len(trace) :
              trace[k].ev = "write" /\ trace[k].arg = WithNul(call.arg)
        /\ pc \in {"file_write", "idle"}
        /\ pc = "idle" =>
              /\ Len(trace) = 1
              /\ (trace[1].ok /\ trace[1].count = Len(WithNul(call.arg))) =>
                    ret = Return(None)

\* query("Sleep") has returned None after writing "Sleep\0".
C5_Witness ==
    /\ InQuery
    /\ call.arg = <<83, 108, 101, 101, 112>>
    /\ pc = "idle"
    /\ ret = Return(None)
    /\ Len(trace) = 1
    /\ trace[1].arg = <<83, 108, 101, 101, 112, 0>>
    /\ trace[1].count = 6

\* ------------------------------------------------------------------- C6
\* The wait a command that is no sleep command is classified for.
ClassifiedWait(command) ==
    IF LongCommand(command) THEN long_timeout ELSE short_timeout
\* The bus operations of a complete query, in order.
QuerySteps(command) ==
    << [ev |-> "write", arg |-> WithNul(command)],
       [ev |-> "sleep", arg |-> <<ClassifiedWait(command)>>],
       [ev |-> "read", arg |-> <<DefaultNumOfBytes>>] >>

\* C6: the bus operations of a query of a command that is no sleep command
\* are at every moment a prefix of: write of the command plus one NUL, wait
\* of the classified duration, read of 31 bytes; a step follows only a step
\* that completed; and a query that returns has done all three, once each.
C6_WriteWaitRead ==
    (InQuery /\ ~SleepCommand(call.arg)) =>
        /\ Len(trace) <= 3
        /\ \A k \in 1..Len(trace) :
              /\ trace[k].ev = QuerySteps(call.arg)[k].ev
              /\ trace[k].arg = QuerySteps(call.arg)[k].arg
              /\ k < Len(trace) => trace[k].ok
        /\ (pc = "idle" /\ ret.kind = "return") =>
              /\ Len(trace) = 3
              /\ ret.value # None

\* query("Cal,123") wrote "Cal,123\0", waited the long timeout (1.5 s), read
\* 31 bytes and returned a result.
C6_Witness ==
    /\ InQuery
    /\ call.arg = <<67, 97, 108, 44, 49, 50, 51>>
    /\ pc = "idle"
    /\ ret.kind = "return"
    /\ Len(trace) = 3
    /\ trace[1].count = 8
    /\ trace[2].arg = <<LONG_TIMEOUT>>
    /\ ret.value = Some([code |-> Some(0), text |-> Some(<<65>>)])

\* ------------------------------------------------------------------- C7
\* C7: a query whose write failed, or reported fewer bytes than the command
\* plus its NUL, has issued nothing after that write (no wait, no read), is
\* over, and ended by raising.
C7_ShortWriteRaises ==
    (/\ InQuery
     /\ trace # <<>>
     /\ \/ ~trace[1].ok
        \/ trace[1].count < Len(WithNul(call.arg))) =>
        /\ Len(trace) = 1
        /\ pc = "idle"
        /\ ret.kind = "raise"

\* ------------------------------------------------------------------- C8
\* C8: the timeout query gets from get_command_timeout is the long timeout
\* for a command that starts, letter case ignored, with R or CAL, None for
\* one that starts with SLEEP, and the short timeout for any other; the
\* three classes are disjoint; "R", "r" and "Cal,123" are long, "Sleep" is
\* sleep and "L1" is short.
C8_Classification ==
    (InQuery /\ trace # <<>> /\ trace[1].ok) =>
        /\ ~(LongCommand(call.arg) /\ SleepCommand(call.arg))
        /\ LongCommand(call.arg) <=> current_timeout = Some(long_timeout)
        /\ SleepCommand(call.arg) <=> current_timeout = None
        /\ (~LongCommand(call.arg) /\ ~SleepCommand(call.arg))
              <=> current_timeout = Some(short_timeout)
        /\ call.arg \in {<<82>>, <<114>>, <<67, 97, 108, 44, 49, 50, 51>>} =>
              current_timeout = Some(LONG_TIMEOUT)
        /\ call.arg = <<83, 108, 101, 101, 112>> => current_timeout = None
        /\ call.arg = <<76, 49>> => current_timeout = Some(SHORT_TIMEOUT)

\* query("r") got the long timeout.
C8_Witness ==
    /\ InQuery
    /\ call.arg = <<114>>
    /\ trace # <<>>
    /\ trace[1].ok
    /\ current_timeout = Some(LONG_TIMEOUT)

\* ------------------------------------------------------------------- C9
\* Positions of the non-zero bytes of a buffer, and the n-th of them.
NonZeroAt(raw) == {k \in 1..Len(raw) : raw[k] # 0}
NthNonZero(raw, n) ==
    CHOOSE k \in NonZeroAt(raw) : Cardinality({h \in NonZeroAt(raw) : h < k}) = n - 1
\* What read is to return for a buffer: (0, text) when the first non-zero
\* byte is 1, text holding every later non-zero byte with its
\* most-significant bit cleared; else (first non-zero byte, None), or
\* (None, None) when there is none.
Expected(raw) ==
    IF NonZeroAt(raw) = {} THEN [code |-> None, text |-> None]
    ELSE IF raw[NthNonZero(raw, 1)] = 1
    THEN [code |-> Some(0),
          text |-> Some([n \in 1..(Cardinality(NonZeroAt(raw)) - 1) |->
                            raw[NthNonZero(raw, n + 1)] % 128])]
    ELSE [code |-> Some(raw[NthNonZero(raw, 1)]), text |-> None]
\* The last call was a read or a query whose transport read completed.
ReadDone ==
    /\ call.op \in {"read", "query"}
    /\ pc = "idle"
    /\ trace # <<>>
    /\ Last(trace).ev = "read"
    /\ Last(trace).ok

\* C9: a read (alone or at the end of a query) whose transport read
\* completed returns, never raises, and what it returns is the result
\* expected for the buffer the transport delivered.
C9_ReadResult ==
    ReadDone =>
        /\ ret.kind = "return"
        /\ call.op = "read" => ret.value = Expected(raw_data)
        /\ call.op = "query" => ret.value = Some(Expected(raw_data))

\* read got the status 1, a NUL and a payload byte with its
\* most-significant bit set (0xC1), and returned (0, "A").
C9_Witness ==
    /\ ReadDone
    /\ call.op = "read"
    /\ raw_data = <<1, 0, 193>>
    /\ ret.value = [code |-> Some(0), text |-> Some(<<65>>)]

\* ------------------------------------------------------------------ C10
\* C10: is_valid returns (False, None) for an empty response and, for a
\* non-empty one, (code = 1, code) with code the first byte, in 0..255: the
\* code is reported on failure as on success.
C10_IsValid ==
    (call.op = "is_valid" /\ ret.kind = "return") =>
        IF call.arg = <<>>
        THEN ret.value = <<FALSE, None>>
        ELSE /\ call.arg[1] \in 0..255
             /\ ret.value = <<call.arg[1] = 1, Some(call.arg[1])>>

\* is_valid(bytes([2])) returned (False, 2).
C10_Witness ==
    /\ call.op = "is_valid"
    /\ call.arg = <<2>>
    /\ ret = Return(<<FALSE, Some(2)>>)

C12_GetResponse ==
    (call.op = "get_response" /\ ret.kind = "return") =>
        /\ \A k \in 1..Len(ret.value) : ret.value[k] # 0
        /\ Len(ret.value) = Cardinality(NonZeroAt(call.arg))
        /\ \A n \in 1..Len(ret.value) : ret.value[n] = call.arg[NthNonZero(call.arg, n)]
        /\ NonZeroAt(call.arg) = DOMAIN call.arg => ret.value = call.arg
        /\ get_response(ret.value) = ret.value

\* get_response(bytes([0, 65, 0])) returned bytes([65]).
C12_Witness ==
    /\ call.op = "get_response"
    /\ call.arg = <<0, 65, 0>>
    /\ ret = Return(<<65>>)

\* ------------------------------------------------------------------ C13
InBind == call.op = "set_i2c_address"

\* C13: a set_i2c_address that raised has left the recorded address and the
\* binding of both endpoints as they were when it was called; one that
\* returned has set the recorded address to the requested one and left the
\* timeouts alone.
C13_FailedBindChangesNothing ==
    (InBind /\ AtRest) =>
        /\ ret.kind = "raise" => Binding = entry
        /\ ret.kind = "return" =>
              /\ address = call.arg[1]
              /\ long_timeout = LONG_TIMEOUT
              /\ short_timeout = SHORT_TIMEOUT

\* ------------------------------------------------------------------ C14
\* Positions of the trace holding a bus operation of kind ev.
EventsOf(ev) == {k \in 1..Len(trace) : trace[k].ev = ev}

\* C14: a query issues at most one write and at most one read, a read call
\* at most one read and no write; in both, and in set_i2c_address, a bus
\* operation that failed is the last one of the call, which is over and has
\* raised.  (In list_i2c_devices alone a failed operation may be followed
\* by others.)
C14_NoRetry ==
    (call.op \in {"query", "read", "set_i2c_address"}) =>
        /\ Cardinality(EventsOf("write")) <= (IF InQuery THEN 1 ELSE 0)
        /\ Cardinality(EventsOf("read")) <= (IF InBind THEN 0 ELSE 1)
        /\ \A k \in 1..Len(trace) :
              ~trace[k].ok =>
                  /\ k = Len(trace)
                  /\ pc = "idle"
                  /\ ret.kind = "raise"

\* A query wrote, waited, and raised at once when its read failed.
C14_Witness ==
    /\ InQuery
    /\ pc = "idle"
    /\ ret.kind = "raise"
    /\ Len(trace) = 3
    /\ trace[3].ev = "read"
    /\ ~trace[3].ok

\* ------------------------------------------------------------------ C16
\* C16: a handle just constructed is bound to the address given to the
\* constructor, and to the default address 98 when none was given.
C16_ConstructBindsGiven ==
    (call.op = "__init__" /\ AtRest /\ ret.kind = "return") =>
        /\ address = (IF call.arg = None THEN 98 ELSE call.arg[1])
        /\ read_addr = Some(address)
        /\ write_addr = Some(address)

\* ------------------------------------------------------------------ C17
\* The tuple the last read or query returned.
Result == IF call.op = "query" THEN ret.value[1] ELSE ret.value

\* C17: in a result of read or query the code 0 comes with a text, and a
\* result without text has no code or a code in 2..255: never 0, the zero
\* bytes being removed before the status byte is taken.
C17_ZeroMeansSuccess ==
    (ReadDone /\ ret.kind = "return") =>
        /\ Result.code = Some(0) <=> Result.text # None
        /\ Result.text = None =>
              \/ Result.code = None
              \/ Result.code[1] \in 2..255

\* read got a NUL in front of the error status 2 and returned (2, None).
C17_Witness ==
    /\ ReadDone
    /\ call.op = "read"
    /\ raw_data = <<0, 2>>
    /\ ret = Return([code |-> Some(2), text |-> None])

\* ------------------------------------------------------------------ C19
\* C19: list_i2c_devices transmits nothing: its bus operations are
\* address-selects on the two endpoints and reads of one byte, never a
\* write and never a wait on a command.
C19_ScanTransmitsNothing ==
    InList =>
        /\ EventsOf("write") = {}
        /\ EventsOf("sleep") = {}
        /\ \A k \in 1..Len(trace) :
              \/ trace[k].ev \in {"ioctl_read", "ioctl_write"}
              \/ trace[k].ev = "read" /\ trace[k].arg = <<1>>
        /\ pc \in {"ioctl_read", "ioctl_write", "file_read", "idle"}

\* A whole scan that found every candidate: for each a bind and a 1-byte
\* read, then the restoring bind.
C19_Witness ==
    /\ ListOver
    /\ ret = Return([j \in 1..(LastAddr + 1) |-> j - 1])
    /\ Cardinality(EventsOf("read")) = LastAddr + 1
    /\ Len(trace) = 3 * (LastAddr + 1) + 2

\* ------------------------------------------------------------------ C20
\* Positions of the trace where the loop of the scan tried to bind j.
BindTriesAt(j) ==
    {k \in EventsOf("ioctl_read") : trace[k].by = "list_loop" /\ trace[k].arg = <<j>>}

\* C20: in list_i2c_devices every probe read comes right after the two
\* address-selects of one candidate, both successful; a candidate is bound
\* at most once and read at most once; the read is issued while both
\* endpoints are bound to the candidate; and every address in the list was
\* read that way.
C20_ReadOnlyAfterBind ==
    InList =>
        /\ \A k \in EventsOf("read") :
              /\ k >= 3
              /\ trace[k].by = "list_loop"
              /\ \E j \in Candidates : (k - 1) \in BoundAt(j) /\ (k - 2) \in BindTriesAt(j)
              /\ trace[k - 2].ok
        /\ \A j \in Candidates :
              /\ Cardinality(BindTriesAt(j)) <= 1
              /\ Cardinality(BoundAt(j)) <= 1
              /\ Cardinality({k \in EventsOf("read") : (k - 1) \in BoundAt(j)}) <= 1
        /\ Cardinality(EventsOf("read")) <= LastAddr + 1
        /\ pc = "file_read" => (read_addr = Some(i) /\ write_addr = Some(i))
        /\ \A j \in Elems(i2c_devices) : Responsive(j)

\* The scan is about to read candidate 1, bound on both endpoints, after a
\* candidate 0 whose bind failed on the write endpoint and got no read.
C20_Witness ==
    /\ InList
    /\ pc = "file_read"
    /\ i = 1
    /\ read_addr = Some(1)
    /\ write_addr = Some(1)
    /\ Len(trace) = 4
    /\ trace[2].ev = "ioctl_write"
    /\ ~trace[2].ok
    /\ EventsOf("read") = {}

\* ------------------------------------------------------------------ C18
\* C18: whatever the handle's timeouts are, zero included, a query that
\* returns has read and returns a result tuple exactly when its command is
\* no sleep command, and has not read and returns None exactly when it is
\* one.
C18_ReadIffNotSleep ==
    (InQuery /\ pc = "idle" /\ ret.kind = "return") =>
        /\ SleepCommand(call.arg) <=> ret.value = None
        /\ SleepCommand(call.arg) <=> EventsOf("read") = {}

\* ------------------------------------------------------------------ C15
\* Positions of the trace where the second thread re-bound the handle.
ForeignAt == {k \in 1..Len(trace) : trace[k].by = "other"}
\* Position of the operation by which the running call aimed at a device:
\* the write of a query, the first address-select of the scan's current
\* candidate, the entry of a read called alone.
AimedAt ==
    CASE frame = "query" -> CHOOSE k \in EventsOf("write") : TRUE
      [] frame = "list_loop" ->
            CHOOSE k \in BindTriesAt(i) : \A h \in BindTriesAt(i) : h <= k
      [] frame = "read" -> 0
\* The address the call aimed at: the scan's candidate, else the address the
\* read endpoint was bound to at that moment.
Target ==
    IF frame = "list_loop" THEN Some(i)
    ELSE IF \E k \in ForeignAt : k < AimedAt /\ trace[k].count >= 1
    THEN Some(trace[CHOOSE k \in ForeignAt : TRUE].arg[1])
    ELSE entry.read_addr
\* The second thread re-bound the handle after the call aimed and before
\* its read.
RebindFellBetween == \E k \in ForeignAt : k > AimedAt
\* The call is about to read from a device other than the one it aimed at.
Misdirected == pc = "file_read" /\ read_addr # Target

====
